---------------------------- MODULE Spec2Model ----------------------------
(***************************************************************************)
(* land-verify: a role-based land registry.  The model covers              *)
(*   - the row-level-security policies of the SQL migration                *)
(*     (src/supabase/migrations/20250624164004_bronze_villa.sql), with the *)
(*     PostgreSQL rules for combining them: permissive policies of one     *)
(*     command are OR-ed, a FOR ALL policy applies to every command, a      *)
(*     missing WITH CHECK defaults to the policy's USING, a row that fails *)
(*     USING is silently skipped by UPDATE/DELETE, and a row that fails     *)
(*     WITH CHECK makes INSERT/UPDATE raise an error;                      *)
(*   - the screen handlers that issue requests against those tables.       *)
(* The client reads and writes the profile table under the name            *)
(* user_profiles (src/contexts/AuthContext.tsx:104), the migration         *)
(* declares it as profiles; the model has one table, profiles.             *)
(***************************************************************************)
EXTENDS Integers, FiniteSets, Sequences, TLC

\* ------------------------------------------------------------- bounds
MaxUsers == 2

MaxLands == 1

MaxDocs == 1

MaxNotifs == 2

\* session-change events waiting for the listener
MaxEvents == 1

\* profile fetches in flight for one identity
MaxFetches == 1

MaxTxs == 1

\* status updates sent by the admin screens while others may be in flight
MaxWrites == 2

\* ------------------------------------------------------------- domains
NULL == 0

Users == 1..MaxUsers

NoRow == "none"

\* profiles.role CHECK (migration line 80)
Roles == {"admin", "landowner", "public"}

\* land_records.ownership_status CHECK (migration line 93)
OwnershipStatuses == {"verified", "pending", "disputed"}

\* ownership_documents.document_type CHECK (migration line 107)
DocumentTypes == {"deed", "survey", "certificate", "other"}

\* ownership_documents.status CHECK (migration line 109)
DocumentStatuses == {"pending", "approved", "rejected"}

\* notifications.type CHECK (migration line 135)
NotificationTypes == {"info", "warning", "success", "error"}

\* a value outside every enumerated set, as a client may send it
Invalid == "invalid"

Titles == {"Plot A", "Plot B"}

VARIABLES
    profiles,             \* [Users -> Roles \cup {NoRow}]: profiles.role by profiles.id
    land_records,         \* id :> [title, owner_id, ownership_status]
    nextLand,             \* land ids handed out so far (gen_random_uuid never repeats)
    landownerCreated,     \* ids of the rows inserted by LandownerDashboard.handleAddLand
    ownership_documents,  \* id :> [land_record_id, document_type, status, submitted_by, reviewed_by]
    nextDoc,              \* document ids handed out so far
    notifications,        \* id :> [user_id, title, message, type, read]
    nextNotif,            \* notification ids handed out so far
    response,             \* the last request: its kind, its caller, whether it was applied
    documents,            \* AdminDocumentsScreen of each user: the list last fetched
    filter,               \* AdminDocumentsScreen of each user: the status filter
    inflight,             \* AdminDocumentsScreen of each user: filters of the fetches in flight
    reviewNotified,       \* per document, the notifications handleDocumentAction inserted for it
    inbox,                \* LandownerNotificationsScreen of each user: the list last fetched
    authUsers,            \* auth.users: the identities the auth service knows
    authSession,          \* the auth client's current (persisted) session: its user, or NULL
    session,              \* AuthProvider state: session (its user id, or NULL)
    user,                 \* AuthProvider state: user
    profile,              \* AuthProvider state: profile
    loading,              \* AuthProvider state: loading
    getSession,           \* the getSession() promise of the mount effect: pending, fulfilled, rejected
    events,               \* session-change events not yet delivered to the listener
    fetches,              \* per identity, the profile fetches in flight
    route,                \* the target of IndexScreen's last router.replace
    fetchResolved,        \* a profile fetch has resolved since the provider mounted
    noUserResolved,       \* the session check or an event has resolved without a user
    failure,              \* the last failed screen request and the alerts it raised
    transactions,         \* id :> [from_owner, to_owner, transaction_type, status]
    nextTx,               \* transaction ids handed out so far
    sentUpdate,           \* per user, the status update of an admin screen in flight
    log,                  \* the status updates that have arrived, in the order of arrival
    pendingProfile,       \* per identity, the role of the profile insert signUp has yet to send
    lands                 \* AdminLandsScreen of each user: the list last fetched, id :> ownership_status

landVars == <<land_records, nextLand, landownerCreated>>

docVars == <<ownership_documents, nextDoc>>

notifVars == <<notifications, nextNotif>>

reviewVars == <<documents, filter, inflight, reviewNotified>>

inboxVars == <<inbox>>

\* the state held by the screens
clientVars == <<reviewVars, inboxVars>>

\* the auth service and the state of AuthProvider and IndexScreen
authVars == <<authUsers, authSession, session, user, profile, loading,
              getSession, events, fetches, route, fetchResolved, noUserResolved>>

txVars == <<transactions, nextTx>>

\* what no request on profiles, land records, documents or notifications touches
writeVars == <<sentUpdate, log>>

signUpVars == <<pendingProfile>>

landListVars == <<lands>>

otherVars == <<authVars, failure, txVars, writeVars, signUpVars, landListVars>>

vars == <<profiles, landVars, docVars, notifVars, response, clientVars, otherVars>>

\* no card of the documents list
NoListed == [status |-> NoRow, document_type |-> NoRow, submitted_by |-> NULL,
             title |-> "undefined"]

\* no status update in flight
NoRequest == [table |-> "none", id |-> NULL, status |-> NoRow, listed |-> NoListed]

NoResponse == [op |-> "none", caller |-> NULL, applied |-> FALSE]

Response(op, c, applied) == [op |-> op, caller |-> c, applied |-> applied]

\* ------------------------------------------------------------- policies
\* EXISTS (SELECT 1 FROM profiles WHERE id = auth.uid() AND role = 'admin')
IsAdmin(c) == profiles[c] = "admin"

\* "Users can read all profiles": FOR SELECT USING (true)
Profiles_UsersCanReadAll(c, id) == TRUE

\* the UPDATE policy with its test lost
Profiles_AnyRow(c, id) == TRUE

\* "Users can update own profile": FOR UPDATE USING (auth.uid() = id)
Profiles_UsersCanUpdateOwn(c, id) == c = id

\* "Users can insert own profile": FOR INSERT WITH CHECK (auth.uid() = id)
Profiles_UsersCanInsertOwn(c, id) == c = id

\* "Anyone can read land records": FOR SELECT USING (true)
Land_AnyoneCanRead(c, row) == TRUE

\* "Admins can manage all land records": FOR ALL USING (is admin)
Land_AdminsCanManageAll(c, row) == IsAdmin(c)

\* the owner policy with the comparison to auth.uid() lost: any owned row passes
Land_AnyOwnedRow(c, row) == row.owner_id # NULL \/ IsAdmin(c)

\* "Landowners can manage their own land records":
\* FOR ALL USING (owner_id = auth.uid() OR is admin)
Land_LandownersCanManageOwn(c, row) == row.owner_id = c \/ IsAdmin(c)

\* the SELECT policy and the two FOR ALL policies, OR-ed
LandSelectUsing(c, row) ==
    \/ Land_AnyoneCanRead(c, row)
    \/ Land_AdminsCanManageAll(c, row)
    \/ Land_LandownersCanManageOwn(c, row)

\* UPDATE and DELETE reach a row through the two FOR ALL policies
\* the same with a row that is disputed out of reach
LandModifyUsingUndisputed(c, row) ==
    /\ row.ownership_status # "disputed"
    /\ \/ Land_AdminsCanManageAll(c, row)
       \/ Land_LandownersCanManageOwn(c, row)

LandModifyUsing(c, row) ==
    \/ Land_AdminsCanManageAll(c, row)
    \/ Land_LandownersCanManageOwn(c, row)

\* INSERT and the new row of an UPDATE: WITH CHECK defaults to USING
LandWithCheck(c, row) ==
    \/ Land_AdminsCanManageAll(c, row)
    \/ Land_LandownersCanManageOwn(c, row)

\* column constraints of land_records: the CHECK on ownership_status and the
\* foreign key owner_id REFERENCES profiles(id)
LandConstraints(row) ==
    /\ row.ownership_status \in OwnershipStatuses
    /\ row.owner_id # NULL => profiles[row.owner_id] # NoRow

\* what SELECT * FROM land_records returns to caller c
SelectLandRecords(c) ==
    {id \in DOMAIN land_records : LandSelectUsing(c, land_records[id])}

\* what SELECT * FROM profiles returns to caller c
SelectProfiles(c) ==
    {id \in Users : profiles[id] # NoRow /\ Profiles_UsersCanReadAll(c, id)}

\* ------------------------------------------------------------- profiles requests
\* INSERT INTO profiles (id, role): the primary key, the role CHECK and the
\* INSERT policy decide; signUp issues it with id = the new identity
\* (src/contexts/AuthContext.tsx:287-289)
ProfileInsert(c, id, role) ==
    LET ok == /\ profiles[id] = NoRow
              /\ role \in Roles
              /\ Profiles_UsersCanInsertOwn(c, id)
    IN  /\ profiles' = IF ok THEN [profiles EXCEPT ![id] = role] ELSE profiles
        /\ response' = Response("profiles.insert", c, ok)
        /\ UNCHANGED <<landVars, docVars, notifVars, clientVars, otherVars>>

\* UPDATE profiles SET role = ... WHERE id = ...: updateProfile issues it with
\* id = user.id (src/contexts/AuthContext.tsx:378-381).  The UPDATE policy has
\* no WITH CHECK, so the new row is checked against USING; id is not changed.
ProfileUpdate(c, id, role) ==
    LET ok == /\ profiles[id] # NoRow
              /\ Profiles_UsersCanReadAll(c, id)
              /\ Profiles_UsersCanUpdateOwn(c, id)
              /\ role \in Roles
    IN  /\ profiles' = IF ok THEN [profiles EXCEPT ![id] = role] ELSE profiles
        /\ response' = Response("profiles.update", c, ok)
        /\ UNCHANGED <<landVars, docVars, notifVars, clientVars, otherVars>>

\* ------------------------------------------------------------- land_records requests
\* the columns of land_records the model keeps; verified_by, size, zoning,
\* price and the timestamps take no part in any policy
LandRow(title, owner, status) ==
    [title |-> title, owner_id |-> owner, ownership_status |-> status]

LandInsertAccepted(c, row) == LandConstraints(row) /\ LandWithCheck(c, row)

\* INSERT INTO land_records: a rejected insert raises an error and changes nothing
LandInsert(c, row) ==
    LET ok == LandInsertAccepted(c, row)
        id == nextLand + 1
    IN  /\ nextLand < MaxLands
        /\ land_records' = IF ok THEN land_records @@ (id :> row) ELSE land_records
        /\ nextLand' = IF ok THEN id ELSE nextLand
        /\ response' = Response("land_records.insert", c, ok)
        /\ UNCHANGED <<profiles, docVars, notifVars, clientVars, otherVars>>

\* the row an UPDATE or DELETE ... WHERE id = :id of caller c reaches
LandReached(c, id) ==
    /\ id \in DOMAIN land_records
    /\ LandSelectUsing(c, land_records[id])
    /\ LandModifyUsing(c, land_records[id])

\* UPDATE land_records SET ... WHERE id = :id, row being the row as updated:
\* an unreached row is skipped without error, a new row that fails WITH CHECK
\* or a constraint raises an error; either way nothing changes
LandUpdate(c, id, row) ==
    LET ok == LandReached(c, id) /\ LandConstraints(row) /\ LandWithCheck(c, row)
    IN  /\ land_records' = IF ok THEN [land_records EXCEPT ![id] = row] ELSE land_records
        /\ response' = Response("land_records.update", c, ok)
        /\ UNCHANGED <<profiles, nextLand, landownerCreated, docVars, notifVars, clientVars, otherVars>>

\* the table without the rows ids
Without(table, ids) == [k \in DOMAIN table \ ids |-> table[k]]

\* the documents that reference land record id
\* (land_record_id REFERENCES land_records(id) ON DELETE CASCADE)
DocumentsOf(id) ==
    {d \in DOMAIN ownership_documents : ownership_documents[d].land_record_id = id}

\* DELETE FROM land_records WHERE id = :id; the cascade runs outside the
\* caller's policies
LandDelete(c, id) ==
    LET ok == LandReached(c, id)
    IN  /\ land_records' = IF ok THEN Without(land_records, {id}) ELSE land_records
        /\ landownerCreated' = IF ok THEN landownerCreated \ {id} ELSE landownerCreated
        /\ ownership_documents' = IF ok THEN Without(ownership_documents, DocumentsOf(id))
                                  ELSE ownership_documents
        /\ response' = Response("land_records.delete", c, ok)
        /\ UNCHANGED <<profiles, nextLand, nextDoc, notifVars, clientVars, otherVars>>

\* ------------------------------------------------------------- land screens
\* LandownerDashboard.handleAddLand: owner_id = profile.id, ownership_status = 'pending'
LandownerDashboard_handleAddLand(c, title) ==
    /\ profiles[c] = "landowner"
    /\ LandInsert(c, LandRow(title, c, "pending"))
    /\ landownerCreated' = IF response'.applied
                           THEN landownerCreated \cup {nextLand'}
                           ELSE landownerCreated

\* AdminLandsScreen.handleAddLand: no owner_id, ownership_status = 'verified'
AdminLands_handleAddLand(c, title) ==
    /\ profiles[c] = "admin"
    /\ LandInsert(c, LandRow(title, NULL, "verified"))
    /\ UNCHANGED landownerCreated

\* AdminLandsScreen.handleVerifyLand(landId, status): the update carries
\* ownership_status (and verified_by, updated_at) and no other column
handleVerifyLand(c, id, status) ==
    /\ profiles[c] = "admin"
    /\ id \in DOMAIN land_records
    /\ LandUpdate(c, id, [land_records[id] EXCEPT !.ownership_status = status])

\* AdminLandsScreen.handleDeleteLand, after the alert's Delete button
handleDeleteLand(c, id) ==
    /\ profiles[c] = "admin"
    /\ id \in DOMAIN land_records
    /\ LandDelete(c, id)

\* AdminLandsScreen.fetchLands: select('*') on land_records, then setLands;
\* of a listed row the model keeps the ownership_status
fetchLands(c) ==
    /\ profiles[c] = "admin"
    /\ lands' = [lands EXCEPT ![c] =
                    [id \in SelectLandRecords(c) |-> land_records[id].ownership_status]]
    /\ UNCHANGED <<profiles, landVars, docVars, notifVars, response, clientVars,
                   authVars, failure, txVars, writeVars, signUpVars>>

\* LandCard: the Verify and Dispute buttons are drawn on the cards the list
\* shows as pending, and call handleVerifyLand
LandCard_onPress(c, id, status) ==
    /\ id \in DOMAIN lands[c]
    /\ lands[c][id] = "pending"
    /\ handleVerifyLand(c, id, status)

\* ------------------------------------------------------------- ownership_documents policies
\* EXISTS (SELECT 1 FROM land_records lr
\*         WHERE lr.id = land_record_id AND lr.owner_id = auth.uid());
\* the subquery runs under the caller's SELECT policies on land_records
OwnsLandOf(c, row) ==
    \E lr \in SelectLandRecords(c) :
        lr = row.land_record_id /\ land_records[lr].owner_id = c

\* the SELECT policy with the land-owner branch lost
Docs_ReadWithoutOwner(c, row) == row.submitted_by = c \/ IsAdmin(c)

\* "Users can read documents for their land": FOR SELECT
Docs_UsersCanRead(c, row) ==
    \/ row.submitted_by = c
    \/ OwnsLandOf(c, row)
    \/ IsAdmin(c)

\* the INSERT policy with the ownership test lost
Docs_SubmitterOnly(c, row) == row.submitted_by = c

\* "Users can insert documents for their land": FOR INSERT WITH CHECK
Docs_UsersCanInsert(c, row) == row.submitted_by = c /\ OwnsLandOf(c, row)

\* "Admins can manage all documents": FOR ALL USING (is admin)
Docs_AdminsCanManageAll(c, row) == IsAdmin(c)

\* SELECT: the SELECT policy and the FOR ALL policy, OR-ed
DocSelectUsing(c, row) == Docs_UsersCanRead(c, row) \/ Docs_AdminsCanManageAll(c, row)

\* INSERT: the INSERT policy and the FOR ALL policy (WITH CHECK defaults to USING)
DocInsertCheck(c, row) == Docs_UsersCanInsert(c, row) \/ Docs_AdminsCanManageAll(c, row)

\* UPDATE and DELETE as if the SELECT policy covered them too
DocModifyAsSelect(c, row) == Docs_UsersCanRead(c, row)

\* UPDATE and DELETE: the FOR ALL policy alone, for USING and for WITH CHECK
DocModifyUsing(c, row) == Docs_AdminsCanManageAll(c, row)

\* the CHECKs on document_type and status, and the foreign keys
DocConstraints(row) ==
    /\ row.document_type \in DocumentTypes
    /\ row.status \in DocumentStatuses
    /\ row.land_record_id # NULL => row.land_record_id \in DOMAIN land_records
    /\ row.submitted_by # NULL => profiles[row.submitted_by] # NoRow
    /\ row.reviewed_by # NULL => profiles[row.reviewed_by] # NoRow

\* what SELECT * FROM ownership_documents returns to caller c
SelectDocuments(c) ==
    {d \in DOMAIN ownership_documents : DocSelectUsing(c, ownership_documents[d])}

\* ------------------------------------------------------------- ownership_documents requests
DocRow(land, type, status, submitter, reviewer) ==
    [status |-> status, document_type |-> type, submitted_by |-> submitter,
     land_record_id |-> land, reviewed_by |-> reviewer]

DocInsertAccepted(c, row) == DocConstraints(row) /\ DocInsertCheck(c, row)

\* INSERT INTO ownership_documents
DocInsert(c, row) ==
    LET ok == DocInsertAccepted(c, row)
        id == nextDoc + 1
    IN  /\ nextDoc < MaxDocs
        /\ ownership_documents' =
              IF ok THEN ownership_documents @@ (id :> row) ELSE ownership_documents
        /\ nextDoc' = IF ok THEN id ELSE nextDoc
        /\ response' = Response("ownership_documents.insert", c, ok)
        /\ UNCHANGED <<profiles, landVars, notifVars, clientVars, otherVars>>

\* the row an UPDATE or DELETE ... WHERE id = :id of caller c reaches
DocReached(c, id) ==
    /\ id \in DOMAIN ownership_documents
    /\ DocSelectUsing(c, ownership_documents[id])
    /\ DocModifyUsing(c, ownership_documents[id])

\* whether UPDATE ownership_documents SET ... WHERE id = :id is applied
DocUpdateApplied(c, id, row) ==
    DocReached(c, id) /\ DocConstraints(row) /\ DocModifyUsing(c, row)

\* UPDATE ownership_documents SET ... WHERE id = :id, row being the row as updated
DocUpdate(c, id, row) ==
    LET ok == DocUpdateApplied(c, id, row)
    IN  /\ ownership_documents' =
              IF ok THEN [ownership_documents EXCEPT ![id] = row] ELSE ownership_documents
        /\ response' = Response("ownership_documents.update", c, ok)
        /\ UNCHANGED <<profiles, landVars, nextDoc, notifVars, clientVars, otherVars>>

\* DELETE FROM ownership_documents WHERE id = :id
DocDelete(c, id) ==
    LET ok == DocReached(c, id)
    IN  /\ ownership_documents' =
              IF ok THEN Without(ownership_documents, {id}) ELSE ownership_documents
        /\ response' = Response("ownership_documents.delete", c, ok)
        /\ UNCHANGED <<profiles, landVars, nextDoc, notifVars, clientVars, otherVars>>

\* LandownerDocumentsScreen.handleSubmitDocument: submitted_by = profile.id, the
\* land picked in the form, status left to its default 'pending'
handleSubmitDocument(c, land, type) ==
    /\ profiles[c] = "landowner"
    /\ DocInsert(c, DocRow(land, type, "pending", c, NULL))

\* ------------------------------------------------------------- notifications policies
\* the SELECT policy with its test lost
Notif_AnyRow(c, row) == TRUE

\* "Users can read their own notifications": FOR SELECT USING (user_id = auth.uid())
Notif_UsersCanRead(c, row) == row.user_id = c

\* "Users can update their own notifications": FOR UPDATE USING (user_id = auth.uid())
Notif_UsersCanUpdate(c, row) == row.user_id = c

\* "System can create notifications": FOR INSERT WITH CHECK (true)
Notif_SystemCanCreate(c, row) == TRUE

\* the CHECK on type and the foreign key user_id REFERENCES profiles(id)
NotifConstraints(row) ==
    /\ row.type \in NotificationTypes
    /\ row.user_id # NULL => profiles[row.user_id] # NoRow

\* what SELECT * FROM notifications returns to caller c
SelectNotifications(c) ==
    {n \in DOMAIN notifications : Notif_UsersCanRead(c, notifications[n])}

\* ------------------------------------------------------------- notifications requests
\* a row as inserted: read takes its default, false
NotifRow(recipient, title, message, type) ==
    [title |-> title, type |-> type, user_id |-> recipient, message |-> message,
     read |-> FALSE]

NotifInsertAccepted(c, row) == NotifConstraints(row) /\ Notif_SystemCanCreate(c, row)

\* INSERT INTO notifications
NotifInsert(c, row) ==
    LET ok == NotifInsertAccepted(c, row)
        id == nextNotif + 1
    IN  /\ nextNotif < MaxNotifs
        /\ notifications' = IF ok THEN notifications @@ (id :> row) ELSE notifications
        /\ nextNotif' = IF ok THEN id ELSE nextNotif
        /\ response' = Response("notifications.insert", c, ok)
        /\ UNCHANGED <<profiles, landVars, docVars, clientVars, otherVars>>

\* the rows among ids that an UPDATE of caller c reaches: those it may read and
\* the UPDATE policy passes, before and (no WITH CHECK, user_id unchanged) after
NotifReached(c, ids) ==
    {n \in ids \cap DOMAIN notifications :
        /\ Notif_UsersCanRead(c, notifications[n])
        /\ Notif_UsersCanUpdate(c, notifications[n])}

\* the table after UPDATE notifications SET read = :read WHERE id IN :ids
NotifAfterUpdate(c, ids, read) ==
    [n \in DOMAIN notifications |->
        IF n \in NotifReached(c, ids)
        THEN [notifications[n] EXCEPT !.read = read]
        ELSE notifications[n]]

\* UPDATE notifications SET read = :read WHERE id = :id
NotifUpdate(c, id, read) ==
    /\ notifications' = NotifAfterUpdate(c, {id}, read)
    /\ response' = Response("notifications.update", c, NotifReached(c, {id}) # {})
    /\ UNCHANGED <<profiles, landVars, docVars, nextNotif, clientVars, otherVars>>

\* DELETE FROM notifications WHERE id = :id: the table has no DELETE policy
\* and no FOR ALL policy, so the request reaches no row and reports no error
NotifDelete(c, id) ==
    /\ response' = Response("notifications.delete", c, FALSE)
    /\ UNCHANGED <<profiles, landVars, docVars, notifVars, clientVars, otherVars>>

\* ------------------------------------------------------------- LandownerNotificationsScreen
\* fetchNotifications: select('*').eq('user_id', profile.id), then setNotifications
fetchNotifications(c) ==
    /\ profiles[c] # NoRow
    /\ inbox' = [inbox EXCEPT ![c] =
                    [n \in {k \in SelectNotifications(c) : notifications[k].user_id = c}
                        |-> notifications[n]]]
    /\ response' = Response("fetchNotifications", c, TRUE)
    /\ UNCHANGED <<profiles, landVars, docVars, notifVars, reviewVars, otherVars>>

\* markAsRead(notificationId), offered on the unread cards of the list
markAsRead(c, id) ==
    /\ profiles[c] # NoRow
    /\ id \in DOMAIN inbox[c]
    /\ ~inbox[c][id].read
    /\ notifications' = NotifAfterUpdate(c, {id}, TRUE)
    /\ inbox' = [inbox EXCEPT ![c][id].read = TRUE]
    /\ response' = Response("markAsRead", c, TRUE)
    /\ UNCHANGED <<profiles, landVars, docVars, nextNotif, reviewVars, otherVars>>

\* markAllAsRead: the ids of the unread rows of the list; nothing is sent when
\* there is none; otherwise update({read: true}).in('id', unreadIds), then
\* every row of the list is shown read
markAllAsRead(c) ==
    LET unreadIds == {n \in DOMAIN inbox[c] : ~inbox[c][n].read}
    IN  /\ profiles[c] # NoRow
        /\ IF unreadIds = {}
           THEN /\ response' = Response("markAllAsRead", c, FALSE)
                /\ UNCHANGED <<notifications, inbox>>
           ELSE /\ notifications' = NotifAfterUpdate(c, unreadIds, TRUE)
                /\ inbox' = [inbox EXCEPT ![c] =
                                [n \in DOMAIN inbox[c] |-> [inbox[c][n] EXCEPT !.read = TRUE]]]
                /\ response' = Response("markAllAsRead", c, TRUE)
        /\ UNCHANGED <<profiles, landVars, docVars, nextNotif, reviewVars, otherVars>>

\* deleteNotification(notificationId): the delete reports no error, and the
\* row leaves the list
deleteNotification(c, id) ==
    /\ profiles[c] # NoRow
    /\ id \in DOMAIN inbox[c]
    /\ inbox' = [inbox EXCEPT ![c] = Without(inbox[c], {id})]
    /\ response' = Response("deleteNotification", c, FALSE)
    /\ UNCHANGED <<profiles, landVars, docVars, notifVars, reviewVars, otherVars>>

\* ------------------------------------------------------------- AdminDocumentsScreen
Filters == {"all", "pending", "approved", "rejected"}

\* a row of the list: the document with land_records(title) joined in;
\* the join yields no land when the caller cannot read it or none is referenced
ListedDocument(c, d) ==
    LET row == ownership_documents[d]
    IN  [status |-> row.status, document_type |-> row.document_type,
         submitted_by |-> row.submitted_by,
         title |-> IF row.land_record_id \in SelectLandRecords(c)
                   THEN land_records[row.land_record_id].title
                   ELSE "undefined"]

\* the answer to fetchDocuments' query for filter f: every readable document,
\* or those whose status is f
DocumentsQuery(c, f) ==
    [d \in {k \in SelectDocuments(c) : f = "all" \/ ownership_documents[k].status = f}
        |-> ListedDocument(c, d)]

\* fetchDocuments is called (on mount, and by the effect on filter): the
\* query carries the filter of that moment
fetchDocuments(c) ==
    /\ profiles[c] = "admin"
    /\ filter[c] \notin inflight[c]
    /\ inflight' = [inflight EXCEPT ![c] = @ \cup {filter[c]}]
    /\ UNCHANGED <<profiles, landVars, docVars, notifVars, response,
                   documents, filter, reviewNotified, inboxVars, otherVars>>

\* FilterButton: setFilter(status), and the effect on [filter] fetches
setFilter(c, f) ==
    /\ profiles[c] = "admin"
    /\ f # filter[c]
    /\ filter' = [filter EXCEPT ![c] = f]
    /\ inflight' = [inflight EXCEPT ![c] = @ \cup {f}]
    /\ UNCHANGED <<profiles, landVars, docVars, notifVars, response,
                   documents, reviewNotified, inboxVars, otherVars>>

\* the answer to a fetch in flight arrives and is dropped unless the fetch was
\* made for the filter of the moment
fetchDocumentsResolveCurrent(c, f) ==
    /\ f \in inflight[c]
    /\ documents' = IF f = filter[c]
                    THEN [documents EXCEPT ![c] = DocumentsQuery(c, f)]
                    ELSE documents
    /\ inflight' = [inflight EXCEPT ![c] = @ \ {f}]
    /\ UNCHANGED <<profiles, landVars, docVars, notifVars, response,
                   filter, reviewNotified, inboxVars, otherVars>>

\* the answer to a fetch in flight arrives: setDocuments(data)
fetchDocumentsResolve(c, f) ==
    /\ f \in inflight[c]
    /\ documents' = [documents EXCEPT ![c] = DocumentsQuery(c, f)]
    /\ inflight' = [inflight EXCEPT ![c] = @ \ {f}]
    /\ UNCHANGED <<profiles, landVars, docVars, notifVars, response,
                   filter, reviewNotified, inboxVars, otherVars>>

\* the notification with the wrong recipient: the admin who pressed the button
ReviewNotificationToReviewer(c, document, action) ==
    NotifRow(c, <<"Document", action>>,
             <<document.document_type, document.title, action>>,
             IF action = "approved" THEN "success" ELSE "warning")

\* the notification handleDocumentAction builds from the listed document
ReviewNotification(c, document, action) ==
    NotifRow(document.submitted_by, <<"Document", action>>,
             <<document.document_type, document.title, action>>,
             IF action = "approved" THEN "success" ELSE "warning")

\* handleDocumentAction(documentId, action), from the Approve and Reject
\* buttons of a card the list shows as pending: the update; on an error the
\* alert and nothing else; otherwise fetchDocuments() is started and the
\* notification for the listed document is inserted, its outcome not looked at
handleDocumentAction(c, id, action) ==
    LET exists  == id \in DOMAIN ownership_documents
        row     == [ownership_documents[id] EXCEPT !.status = action, !.reviewed_by = c]
        applied == exists /\ DocUpdateApplied(c, id, row)
        error   == exists /\ DocReached(c, id) /\ ~applied
        notif   == ReviewNotification(c, documents[c][id], action)
        sent    == ~error /\ NotifInsertAccepted(c, notif)
        nid     == nextNotif + 1
    IN  /\ profiles[c] = "admin"
        /\ id \in DOMAIN documents[c]
        /\ documents[c][id].status = "pending"
        /\ nextNotif < MaxNotifs
        /\ ownership_documents' =
              IF applied THEN [ownership_documents EXCEPT ![id] = row]
              ELSE ownership_documents
        /\ inflight' = IF error THEN inflight
                       ELSE [inflight EXCEPT ![c] = @ \cup {filter[c]}]
        /\ notifications' = IF sent THEN notifications @@ (nid :> notif) ELSE notifications
        /\ nextNotif' = IF sent THEN nid ELSE nextNotif
        /\ reviewNotified' = IF sent THEN [reviewNotified EXCEPT ![id] = @ + 1]
                             ELSE reviewNotified
        /\ response' = Response("handleDocumentAction", c, applied)
        /\ UNCHANGED <<profiles, landVars, nextDoc, documents, filter, inboxVars, otherVars>>

\* ------------------------------------------------------------- status updates in flight
InFlight == {u \in Users : sentUpdate[u] # NoRequest}

\* whether another user's update of the same row is in flight
Overlapped(c) ==
    \E u \in Users \ {c} : sentUpdate[u].table = sentUpdate[c].table /\ sentUpdate[u].id = sentUpdate[c].id

LogEntry(c, applied) ==
    [caller |-> c, table |-> sentUpdate[c].table, id |-> sentUpdate[c].id,
     status |-> sentUpdate[c].status, applied |-> applied, overlapped |-> Overlapped(c)]

\* AdminLandsScreen.handleVerifyLand(landId, status), from the Verify and
\* Dispute buttons of a card: the update leaves the client
handleVerifyLand_send(c, id, status) ==
    /\ profiles[c] = "admin"
    /\ id \in DOMAIN land_records
    /\ sentUpdate[c] = NoRequest
    /\ Len(log) + Cardinality(InFlight) < MaxWrites
    /\ sentUpdate' = [sentUpdate EXCEPT ![c] =
                   [table |-> "land_records", id |-> id, status |-> status,
                    listed |-> NoListed]]
    /\ UNCHANGED <<profiles, landVars, docVars, notifVars, response, clientVars,
                   authVars, failure, txVars, log, signUpVars, landListVars>>

\* the update of handleVerifyLand arrives: it carries ownership_status (and
\* verified_by, updated_at), is filtered by id alone, and its result decides
\* between the Success and the Error alert
handleVerifyLand_arrive(c) ==
    LET id  == sentUpdate[c].id
        row == [land_records[id] EXCEPT !.ownership_status = sentUpdate[c].status]
        ok  == LandReached(c, id) /\ LandConstraints(row) /\ LandWithCheck(c, row)
    IN  /\ sentUpdate[c].table = "land_records"
        /\ land_records' = IF ok THEN [land_records EXCEPT ![id] = row] ELSE land_records
        /\ response' = Response("land_records.update", c, ok)
        /\ sentUpdate' = [sentUpdate EXCEPT ![c] = NoRequest]
        /\ log' = Append(log, LogEntry(c, ok))
        /\ UNCHANGED <<profiles, nextLand, landownerCreated, docVars, notifVars,
                       clientVars, authVars, failure, txVars, signUpVars, landListVars>>

\* AdminDocumentsScreen.handleDocumentAction(documentId, action), from the
\* buttons of a card the list shows as pending: the update leaves the client,
\* and the handler keeps the list it was created with
handleDocumentAction_send(c, id, action) ==
    /\ profiles[c] = "admin"
    /\ id \in DOMAIN documents[c]
    /\ documents[c][id].status = "pending"
    /\ sentUpdate[c] = NoRequest
    /\ Len(log) + Cardinality(InFlight) < MaxWrites
    /\ sentUpdate' = [sentUpdate EXCEPT ![c] =
                   [table |-> "ownership_documents", id |-> id, status |-> action,
                    listed |-> documents[c][id]]]
    /\ UNCHANGED <<profiles, landVars, docVars, notifVars, response, clientVars,
                   authVars, failure, txVars, log, signUpVars, landListVars>>

\* the update of handleDocumentAction arrives, and the handler goes on as in
\* handleDocumentAction: on an error the alert; otherwise fetchDocuments()
\* and the notification built from the listed document
handleDocumentAction_arrive(c) ==
    LET id      == sentUpdate[c].id
        action  == sentUpdate[c].status
        exists  == id \in DOMAIN ownership_documents
        row     == [ownership_documents[id] EXCEPT !.status = action, !.reviewed_by = c]
        applied == exists /\ DocUpdateApplied(c, id, row)
        error   == exists /\ DocReached(c, id) /\ ~applied
        notif   == ReviewNotification(c, sentUpdate[c].listed, action)
        sends   == ~error /\ NotifInsertAccepted(c, notif)
        nid     == nextNotif + 1
    IN  /\ sentUpdate[c].table = "ownership_documents"
        /\ nextNotif < MaxNotifs
        /\ ownership_documents' =
              IF applied THEN [ownership_documents EXCEPT ![id] = row]
              ELSE ownership_documents
        /\ inflight' = IF error THEN inflight
                       ELSE [inflight EXCEPT ![c] = @ \cup {filter[c]}]
        /\ notifications' = IF sends THEN notifications @@ (nid :> notif) ELSE notifications
        /\ nextNotif' = IF sends THEN nid ELSE nextNotif
        /\ reviewNotified' = IF sends THEN [reviewNotified EXCEPT ![id] = @ + 1]
                             ELSE reviewNotified
        /\ response' = Response("handleDocumentAction", c, applied)
        /\ sentUpdate' = [sentUpdate EXCEPT ![c] = NoRequest]
        /\ log' = Append(log, LogEntry(c, applied))
        /\ UNCHANGED <<profiles, landVars, nextDoc, documents, filter, inboxVars,
                       authVars, failure, txVars, signUpVars, landListVars>>

\* ------------------------------------------------------------- transactions
\* transactions.transaction_type CHECK (migration line 122)
TransactionTypes == {"sale", "transfer", "inheritance"}

\* transactions.status CHECK (migration line 124)
TransactionStatuses == {"pending", "approved", "completed", "cancelled"}

\* the columns of transactions the model keeps; land_record_id, amount and
\* approved_by take no part in a policy or a CHECK
TxRow(from, to, type, status) ==
    [status |-> status, from_owner |-> from, to_owner |-> to, transaction_type |-> type]

\* "Users can read their transactions": FOR SELECT
Tx_UsersCanRead(c, row) == row.from_owner = c \/ row.to_owner = c \/ IsAdmin(c)

\* "Users can create transactions": FOR INSERT WITH CHECK
Tx_UsersCanCreate(c, row) == row.from_owner = c \/ row.to_owner = c

\* "Admins can manage all transactions": FOR ALL USING (is admin)
Tx_AdminsCanManageAll(c, row) == IsAdmin(c)

\* the table with the CHECK on transaction_type lost
TxConstraintsNoType(row) ==
    /\ row.status \in TransactionStatuses
    /\ row.from_owner # NULL => profiles[row.from_owner] # NoRow
    /\ row.to_owner # NULL => profiles[row.to_owner] # NoRow

\* the CHECKs on transaction_type and status, and the foreign keys
TxConstraints(row) ==
    /\ row.transaction_type \in TransactionTypes
    /\ row.status \in TransactionStatuses
    /\ row.from_owner # NULL => profiles[row.from_owner] # NoRow
    /\ row.to_owner # NULL => profiles[row.to_owner] # NoRow

TxInsertAccepted(c, row) ==
    /\ TxConstraints(row)
    /\ Tx_UsersCanCreate(c, row) \/ Tx_AdminsCanManageAll(c, row)

\* INSERT INTO transactions
TxInsert(c, row) ==
    LET ok == TxInsertAccepted(c, row)
        id == nextTx + 1
    IN  /\ nextTx < MaxTxs
        /\ transactions' = IF ok THEN transactions @@ (id :> row) ELSE transactions
        /\ nextTx' = IF ok THEN id ELSE nextTx
        /\ response' = Response("transactions.insert", c, ok)
        /\ UNCHANGED <<profiles, landVars, docVars, notifVars, clientVars,
                       authVars, failure, writeVars, signUpVars, landListVars>>

\* whether UPDATE transactions SET ... WHERE id = :id is applied: only the
\* FOR ALL policy covers UPDATE
TxUpdateApplied(c, id, row) ==
    /\ id \in DOMAIN transactions
    /\ Tx_UsersCanRead(c, transactions[id]) \/ Tx_AdminsCanManageAll(c, transactions[id])
    /\ Tx_AdminsCanManageAll(c, transactions[id])
    /\ TxConstraints(row)
    /\ Tx_AdminsCanManageAll(c, row)

\* UPDATE transactions SET ... WHERE id = :id, row being the row as updated
TxUpdate(c, id, row) ==
    LET ok == TxUpdateApplied(c, id, row)
    IN  /\ transactions' = IF ok THEN [transactions EXCEPT ![id] = row] ELSE transactions
        /\ response' = Response("transactions.update", c, ok)
        /\ UNCHANGED <<profiles, landVars, docVars, notifVars, clientVars,
                       authVars, failure, nextTx, writeVars, signUpVars, landListVars>>

\* ------------------------------------------------------------- AuthProvider
\* profile = null
NoProfile == [id |-> NULL, role |-> NoRow]

\* the state of a provider that has just mounted: the useState initial values
\* (AuthContext.tsx:29-32), getSession() called and unsettled, the listener
\* subscribed, nothing delivered and nothing in flight
Mounted ==
    /\ session = NULL
    /\ user = NULL
    /\ profile = NoProfile
    /\ loading = TRUE
    /\ getSession = "pending"
    /\ events = <<>>
    /\ fetches = [u \in Users |-> 0]
    /\ route = "none"
    /\ fetchResolved = FALSE
    /\ noUserResolved = FALSE

\* the process is started again: the provider mounts afresh, the auth client
\* keeps the session it persisted, and what the old process awaited is gone
AuthProvider_mount ==
    /\ getSession # "pending"
    /\ session' = NULL
    /\ user' = NULL
    /\ profile' = NoProfile
    /\ loading' = TRUE
    /\ getSession' = "pending"
    /\ events' = <<>>
    /\ fetches' = [u \in Users |-> 0]
    /\ route' = "none"
    /\ fetchResolved' = FALSE
    /\ noUserResolved' = FALSE
    /\ UNCHANGED <<profiles, landVars, docVars, notifVars, response, clientVars,
                   authUsers, authSession, failure, txVars, writeVars, signUpVars, landListVars>>

\* the provider with a fetch keyed by the user it held before the change
fetchProfile_previousUser(userId) ==
    /\ loading' = TRUE
    /\ fetches' = IF user = NULL THEN fetches ELSE [fetches EXCEPT ![user] = @ + 1]

\* the first statement of fetchProfile: setLoading(true), and the query is sent
fetchProfile_start(userId) ==
    /\ loading' = TRUE
    /\ fetches' = [fetches EXCEPT ![userId] = @ + 1]

\* the else branch of both handlers, as the listener has it: no user, so the
\* profile is cleared and loading ends
clearProfile ==
    /\ profile' = NoProfile
    /\ loading' = FALSE

\* getSession().then with loading ended before the profile has been fetched
getSession_thenEager ==
    /\ getSession = "pending"
    /\ getSession' = "fulfilled"
    /\ session' = authSession
    /\ user' = authSession
    /\ loading' = FALSE
    /\ fetches' = IF authSession = NULL THEN fetches
                  ELSE [fetches EXCEPT ![authSession] = @ + 1]
    /\ noUserResolved' = (noUserResolved \/ authSession = NULL)
    /\ UNCHANGED <<profiles, landVars, docVars, notifVars, response, clientVars,
                   authUsers, authSession, profile, events, route, fetchResolved,
                   failure, txVars, writeVars, signUpVars, landListVars>>

\* getSession().then (AuthContext.tsx:39-60): setSession, setUser, then
\* fetchProfile for a user, setLoading(false) without one
getSession_then ==
    /\ getSession = "pending"
    /\ getSession' = "fulfilled"
    /\ session' = authSession
    /\ user' = authSession
    /\ IF authSession # NULL
       THEN /\ authSession \in Users
            /\ fetches[authSession] < MaxFetches
            /\ fetchProfile_start(authSession)
            /\ UNCHANGED noUserResolved
       ELSE /\ loading' = FALSE
            /\ noUserResolved' = TRUE
            /\ UNCHANGED fetches
    /\ UNCHANGED <<profiles, landVars, docVars, notifVars, response, clientVars,
                   authUsers, authSession, profile, events, route, fetchResolved,
                   failure, txVars, writeVars, signUpVars, landListVars>>

\* getSession().catch (AuthContext.tsx:61-64): setLoading(false)
getSession_catch ==
    /\ getSession = "pending"
    /\ getSession' = "rejected"
    /\ loading' = FALSE
    /\ noUserResolved' = TRUE
    /\ UNCHANGED <<profiles, landVars, docVars, notifVars, response, clientVars,
                   authUsers, authSession, session, user, profile, events, fetches,
                   route, fetchResolved, failure, txVars, writeVars, signUpVars, landListVars>>

\* the onAuthStateChange listener receives the oldest undelivered event
\* (AuthContext.tsx:68-89): setSession, setUser, then fetchProfile for a user,
\* setProfile(null) and setLoading(false) without one
onAuthStateChange ==
    /\ events # <<>>
    /\ LET s == Head(events)
       IN  /\ session' = s
           /\ user' = s
           /\ IF s # NULL
              THEN /\ fetches[s] < MaxFetches
                   /\ fetchProfile_start(s)
                   /\ UNCHANGED <<profile, noUserResolved>>
              ELSE /\ clearProfile
                   /\ noUserResolved' = TRUE
                   /\ UNCHANGED fetches
    /\ events' = Tail(events)
    /\ UNCHANGED <<profiles, landVars, docVars, notifVars, response, clientVars,
                   authUsers, authSession, getSession, route, fetchResolved,
                   failure, txVars, writeVars, signUpVars, landListVars>>

\* the query of a fetchProfile in flight returns (AuthContext.tsx:103-152):
\* setProfile(data) when a row came back, nothing on an error (.single() finds
\* no row, or the request failed), setLoading(false) in either case
\* fetchProfile without its finally block: a failed query leaves loading as it is
fetchProfile_resolveNoFinally(userId, failed) ==
    /\ fetches[userId] > 0
    /\ fetches' = [fetches EXCEPT ![userId] = @ - 1]
    /\ profile' = IF ~failed /\ userId \in SelectProfiles(userId)
                  THEN [id |-> userId, role |-> profiles[userId]]
                  ELSE profile
    /\ loading' = IF failed THEN loading ELSE FALSE
    /\ fetchResolved' = TRUE
    /\ UNCHANGED <<profiles, landVars, docVars, notifVars, response, clientVars,
                   authUsers, authSession, session, user, getSession, events,
                   route, noUserResolved, failure, txVars, writeVars, signUpVars, landListVars>>

fetchProfile_resolve(userId, failed) ==
    /\ fetches[userId] > 0
    /\ fetches' = [fetches EXCEPT ![userId] = @ - 1]
    /\ profile' = IF ~failed /\ userId \in SelectProfiles(userId)
                  THEN [id |-> userId, role |-> profiles[userId]]
                  ELSE profile
    /\ loading' = FALSE
    /\ fetchResolved' = TRUE
    /\ UNCHANGED <<profiles, landVars, docVars, notifVars, response, clientVars,
                   authUsers, authSession, session, user, getSession, events,
                   route, noUserResolved, failure, txVars, writeVars, signUpVars, landListVars>>

\* ------------------------------------------------------------- the auth service
\* signUp(email, password, fullName, role) (AuthContext.tsx:214-308):
\* auth.signUp creates the identity; it comes with a session unless the
\* project asks for e-mail confirmation; then the profile row is inserted
\* with the client's session of that moment, and a failed insert is thrown
\* with the identity left in place
signUp(c, role, confirmation) ==
    LET signedIn == IF confirmation THEN authSession ELSE c
        ok == /\ signedIn # NULL
              /\ profiles[c] = NoRow
              /\ role \in Roles
              /\ Profiles_UsersCanInsertOwn(signedIn, c)
    IN  /\ c \notin authUsers
        /\ Len(events) < MaxEvents
        /\ authUsers' = authUsers \cup {c}
        /\ authSession' = signedIn
        /\ events' = IF confirmation THEN events ELSE Append(events, c)
        /\ profiles' = IF ok THEN [profiles EXCEPT ![c] = role] ELSE profiles
        /\ response' = Response("profiles.insert", signedIn, ok)
        /\ UNCHANGED <<landVars, docVars, notifVars, clientVars,
                       session, user, profile, loading, getSession, fetches,
                       route, fetchResolved, noUserResolved, failure, txVars, writeVars, signUpVars, landListVars>>

\* signIn(email, password) (AuthContext.tsx:310-338) with the credentials of
\* an existing identity: the auth client stores the session and emits SIGNED_IN
signIn(c) ==
    /\ c \in authUsers
    /\ authSession # c
    /\ Len(events) < MaxEvents
    /\ authSession' = c
    /\ events' = Append(events, c)
    /\ UNCHANGED <<profiles, landVars, docVars, notifVars, response, clientVars,
                   authUsers, session, user, profile, loading, getSession,
                   fetches, route, fetchResolved, noUserResolved, failure, txVars, writeVars, signUpVars, landListVars>>

\* signOut() (AuthContext.tsx:340-361): the auth client drops the session and
\* emits SIGNED_OUT; the provider's state changes only in the listener
\* signUp up to the answer of supabase.auth.signUp on a project without e-mail
\* confirmation: the identity exists, the client holds its session and has
\* emitted SIGNED_IN; the profile insert is still to be sent
signUp_auth(c, role) ==
    /\ c \notin authUsers
    /\ Len(events) < MaxEvents
    /\ authUsers' = authUsers \cup {c}
    /\ authSession' = c
    /\ events' = Append(events, c)
    /\ pendingProfile' = [pendingProfile EXCEPT ![c] = role]
    /\ UNCHANGED <<profiles, landVars, docVars, notifVars, response, clientVars,
                   session, user, profile, loading, getSession, fetches,
                   route, fetchResolved, noUserResolved, failure, txVars, writeVars,
                   landListVars>>

\* the rest of signUp: the profile insert, sent with the session of the
\* moment; its error is thrown, and nothing fetches the profile afterwards
signUp_insert(c) ==
    LET role == pendingProfile[c]
        ok   == /\ authSession # NULL
                /\ profiles[c] = NoRow
                /\ role \in Roles
                /\ Profiles_UsersCanInsertOwn(authSession, c)
    IN  /\ role # NoRow
        /\ profiles' = IF ok THEN [profiles EXCEPT ![c] = role] ELSE profiles
        /\ response' = Response("profiles.insert", authSession, ok)
        /\ pendingProfile' = [pendingProfile EXCEPT ![c] = NoRow]
        /\ UNCHANGED <<landVars, docVars, notifVars, clientVars, authVars,
                       failure, txVars, writeVars, landListVars>>

signOut ==
    /\ authSession # NULL
    /\ Len(events) < MaxEvents
    /\ authSession' = NULL
    /\ events' = Append(events, NULL)
    /\ UNCHANGED <<profiles, landVars, docVars, notifVars, response, clientVars,
                   authUsers, session, user, profile, loading, getSession,
                   fetches, route, fetchResolved, noUserResolved, failure, txVars, writeVars, signUpVars, landListVars>>

\* the auth client refreshes its token and emits TOKEN_REFRESHED with the
\* session it holds
tokenRefreshed ==
    /\ authSession # NULL
    /\ Len(events) < MaxEvents
    /\ events' = Append(events, authSession)
    /\ UNCHANGED <<profiles, landVars, docVars, notifVars, response, clientVars,
                   authUsers, authSession, session, user, profile, loading,
                   getSession, fetches, route, fetchResolved, noUserResolved,
                   failure, txVars, writeVars, signUpVars, landListVars>>

\* ------------------------------------------------------------- IndexScreen
Routes == {"/auth", "/(admin)", "/(landowner)", "/(public)"}

\* the switch with an unrecognized role sent to the public screens
RoutingTargetLenient(l, s, p) ==
    IF l THEN "none"
    ELSE IF s = NULL \/ p = NoProfile THEN "/auth"
    ELSE IF p.role = "admin" THEN "/(admin)"
    ELSE IF p.role = "landowner" THEN "/(landowner)"
    ELSE "/(public)"

\* the effect of IndexScreen (app/index.tsx:11-58) for loading l, session s
\* and profile p: the argument of router.replace, "none" when it is not called
RoutingTarget(l, s, p) ==
    IF l THEN "none"
    ELSE IF s = NULL \/ p = NoProfile THEN "/auth"
    ELSE CASE p.role = "admin" -> "/(admin)"
           [] p.role = "landowner" -> "/(landowner)"
           [] p.role = "public" -> "/(public)"
           [] OTHER -> "/auth"

\* the effect runs after a render in which one of its dependencies changed
IndexScreen_effect ==
    /\ RoutingTarget(loading, session, profile) \notin {"none", route}
    /\ route' = RoutingTarget(loading, session, profile)
    /\ UNCHANGED <<profiles, landVars, docVars, notifVars, response, clientVars,
                   authUsers, authSession, session, user, profile, loading,
                   getSession, events, fetches, fetchResolved, noUserResolved,
                   failure, txVars, writeVars, signUpVars, landListVars>>

\* ------------------------------------------------------------- AuthScreen
\* the effect of AuthScreen, the screen at /auth: once the provider has a
\* user and a profile and is not loading, router.replace('/')
AuthScreen_effect ==
    /\ route = "/auth"
    /\ ~loading
    /\ user # NULL
    /\ profile # NoProfile
    /\ route' = "/"
    /\ UNCHANGED <<profiles, landVars, docVars, notifVars, response, clientVars,
                   authUsers, authSession, session, user, profile, loading,
                   getSession, events, fetches, fetchResolved, noUserResolved,
                   failure, txVars, writeVars, signUpVars, landListVars>>

\* ------------------------------------------------------------- failed screen requests
\* the last request of a screen that came back with an error: the handler it
\* was sent by, how often the handler sent it, and the alerts the handler raised
NoFailure == [op |-> "none", requests |-> 0, alerts |-> 0]

\* a request of handler op comes back with an error and the handler's catch
\* block runs: the store and the list stay as they are
RequestFailed(op, alerts) ==
    /\ failure' = [op |-> op, requests |-> 1, alerts |-> alerts]
    /\ UNCHANGED <<profiles, landVars, docVars, notifVars, response, clientVars,
                   authVars, txVars, writeVars, signUpVars, landListVars>>

\* fetchNotifications, catch: console.error, Alert.alert('Error', ...)
fetchNotifications_failed(c) ==
    /\ profiles[c] # NoRow
    /\ RequestFailed("fetchNotifications", 1)

\* markAsRead, catch: console.error only
markAsRead_failed(c, id) ==
    /\ profiles[c] # NoRow
    /\ id \in DOMAIN inbox[c]
    /\ ~inbox[c][id].read
    /\ RequestFailed("markAsRead", 0)

\* deleteNotification, catch: console.error, Alert.alert('Error', ...)
deleteNotification_failed(c, id) ==
    /\ profiles[c] # NoRow
    /\ id \in DOMAIN inbox[c]
    /\ RequestFailed("deleteNotification", 1)

\* markAllAsRead, catch: console.error, Alert.alert('Error', ...); nothing is
\* sent when the list has no unread row
markAllAsRead_failed(c) ==
    /\ profiles[c] # NoRow
    /\ \E n \in DOMAIN inbox[c] : ~inbox[c][n].read
    /\ RequestFailed("markAllAsRead", 1)

\* ------------------------------------------------------------- specification: land records
LandIds == 1..MaxLands

DocIds == 1..MaxDocs

NotifIds == 1..MaxNotifs

Init ==
    /\ profiles = [u \in Users |-> NoRow]
    /\ land_records = <<>>
    /\ nextLand = 0
    /\ landownerCreated = {}
    /\ ownership_documents = <<>>
    /\ nextDoc = 0
    /\ notifications = <<>>
    /\ nextNotif = 0
    /\ response = NoResponse
    /\ documents = [u \in Users |-> <<>>]
    /\ filter = [u \in Users |-> "pending"]
    /\ inflight = [u \in Users |-> {}]
    /\ reviewNotified = [d \in DocIds |-> 0]
    /\ inbox = [u \in Users |-> <<>>]
    /\ authUsers = {}
    /\ authSession = NULL
    /\ Mounted
    /\ failure = NoFailure
    /\ transactions = <<>>
    /\ nextTx = 0
    /\ sentUpdate = [u \in Users |-> NoRequest]
    /\ log = <<>>
    /\ pendingProfile = [u \in Users |-> NoRow]
    /\ lands = [u \in Users |-> <<>>]

\* the roles whose holders write land records and documents; the policies
\* treat 'public' as they treat 'landowner'
ManagingRoles == {"admin", "landowner"}

\* a request that patches one column of an existing row
LandPatches(id) ==
    IF id \in DOMAIN land_records
    THEN {[land_records[id] EXCEPT !.owner_id = o] : o \in {NULL} \cup Users} \cup
         {[land_records[id] EXCEPT !.ownership_status = s] : s \in OwnershipStatuses}
    ELSE {LandRow("Plot A", NULL, "pending")}

NextLand ==
    \/ \E c \in Users, role \in ManagingRoles :
          ProfileInsert(c, c, role)
    \/ \E c \in Users, role \in ManagingRoles :
          ProfileUpdate(c, c, role)
    \/ \E c \in Users, o \in {NULL} \cup Users, s \in OwnershipStatuses \cup {Invalid} :
          LandInsert(c, LandRow("Plot A", o, s)) /\ UNCHANGED landownerCreated
    \/ \E c \in Users, id \in LandIds : \E row \in LandPatches(id) :
          LandUpdate(c, id, row)
    \/ \E c \in Users, id \in LandIds :
          LandDelete(c, id)
    \/ \E c \in Users :
          LandownerDashboard_handleAddLand(c, "Plot A")
    \/ \E c \in Users :
          AdminLands_handleAddLand(c, "Plot A")
    \/ \E c \in Users, id \in LandIds, s \in {"verified", "disputed"} :
          handleVerifyLand(c, id, s)
    \/ \E c \in Users, id \in LandIds :
          handleDeleteLand(c, id)

SpecLand == Init /\ [][NextLand]_vars

\* ------------------------------------------------------------- specification: profiles
NextProfiles ==
    \/ \E c \in Users, id \in Users, role \in Roles \cup {Invalid} :
          ProfileInsert(c, id, role)
    \/ \E c \in Users, id \in Users, role \in Roles \cup {Invalid} :
          ProfileUpdate(c, id, role)

SpecProfiles == Init /\ [][NextProfiles]_vars

\* ------------------------------------------------------------- specification: ownership documents
\* a request that sets the status of an existing document
DocPatches(id) ==
    IF id \in DOMAIN ownership_documents
    THEN {[ownership_documents[id] EXCEPT !.status = s] : s \in DocumentStatuses}
    ELSE {DocRow(NULL, "deed", "pending", NULL, NULL)}

NextDocs ==
    \/ \E c \in Users, role \in ManagingRoles :
          ProfileInsert(c, c, role)
    \/ \E c \in Users, role \in ManagingRoles :
          ProfileUpdate(c, c, role)
    \/ \E c \in Users, o \in {NULL} \cup Users :
          LandInsert(c, LandRow("Plot A", o, "pending")) /\ UNCHANGED landownerCreated
    \/ \E c \in Users, id \in LandIds :
          LandDelete(c, id)
    \/ \E c \in Users, l \in {NULL} \cup LandIds, u \in {NULL} \cup Users,
          s \in {"pending", "approved"} :
          DocInsert(c, DocRow(l, "deed", s, u, NULL))
    \/ \E c \in Users, id \in DocIds : \E row \in DocPatches(id) :
          DocUpdate(c, id, row)
    \/ \E c \in Users, id \in DocIds :
          DocDelete(c, id)
    \/ \E c \in Users, l \in LandIds :
          handleSubmitDocument(c, l, "deed")

SpecDocs == Init /\ [][NextDocs]_vars

\* ------------------------------------------------------------- specification: notifications
NextInbox ==
    \/ \E c \in Users, role \in {"landowner"} :
          ProfileInsert(c, c, role)
    \/ \E c \in Users, u \in Users, t \in {"info", Invalid} :
          NotifInsert(c, NotifRow(u, "title", "message", t))
    \/ \E c \in Users, id \in NotifIds, read \in BOOLEAN :
          NotifUpdate(c, id, read)
    \/ \E c \in Users, id \in NotifIds :
          NotifDelete(c, id)
    \/ \E c \in Users : fetchNotifications(c)
    \/ \E c \in Users, id \in NotifIds : markAsRead(c, id)
    \/ \E c \in Users : markAllAsRead(c)
    \/ \E c \in Users, id \in NotifIds : deleteNotification(c, id)

SpecInbox == Init /\ [][NextInbox]_vars

\* ------------------------------------------------------------- specification: document review
ReviewTypes == {"deed", "survey"}

NextReview ==
    \/ \E c \in Users, role \in ManagingRoles :
          ProfileInsert(c, c, role)
    \/ \E c \in Users, t \in Titles :
          LandownerDashboard_handleAddLand(c, t)
    \/ \E c \in Users, l \in LandIds, type \in ReviewTypes :
          /\ l \in DOMAIN land_records
          /\ land_records[l].owner_id = c
          /\ handleSubmitDocument(c, l, type)
    \/ \E c \in Users, id \in LandIds :
          handleDeleteLand(c, id)
    \/ \E c \in Users : fetchDocuments(c)
    \/ \E c \in Users, f \in {"all", "pending"} : setFilter(c, f)
    \/ \E c \in Users, f \in Filters : fetchDocumentsResolve(c, f)
    \/ \E c \in Users, id \in DocIds, action \in {"approved", "rejected"} :
          handleDocumentAction(c, id, action)

SpecReview == Init /\ [][NextReview]_vars

\* ------------------------------------------------------------- specification: session lifecycle
NextAuth ==
    \/ \E c \in Users, role \in ManagingRoles, confirmation \in BOOLEAN :
          signUp(c, role, confirmation)
    \/ \E c \in Users : signIn(c)
    \/ signOut
    \/ tokenRefreshed
    \/ AuthProvider_mount
    \/ getSession_then
    \/ getSession_catch
    \/ onAuthStateChange
    \/ \E u \in Users, failed \in BOOLEAN : fetchProfile_resolve(u, failed)
    \/ IndexScreen_effect

SpecAuth == Init /\ [][NextAuth]_vars

\* ------------------------------------------------------------- specification: start-up
\* one run of the process: the provider is mounted once
NextStartup ==
    \/ \E c \in Users, role \in ManagingRoles, confirmation \in BOOLEAN :
          signUp(c, role, confirmation)
    \/ \E c \in Users : signIn(c)
    \/ signOut
    \/ tokenRefreshed
    \/ getSession_then
    \/ getSession_catch
    \/ onAuthStateChange
    \/ \E u \in Users, failed \in BOOLEAN : fetchProfile_resolve(u, failed)
    \/ IndexScreen_effect

\* getSession resolves or rejects, every profile query is answered, and the
\* listener handles every event emitted
SpecStartup ==
    /\ Init
    /\ [][NextStartup]_vars
    /\ WF_vars(getSession_then \/ getSession_catch)
    /\ WF_vars(onAuthStateChange)
    /\ WF_vars(\E u \in Users, failed \in BOOLEAN : fetchProfile_resolve(u, failed))

\* ------------------------------------------------------------- specification: land verification
NextVerify ==
    \/ \E c \in Users, role \in ManagingRoles : ProfileInsert(c, c, role)
    \/ \E c \in Users, t \in Titles : LandownerDashboard_handleAddLand(c, t)
    \/ \E c \in Users : fetchLands(c)
    \/ \E c \in Users, id \in LandIds, s \in {"verified", "disputed"} :
          LandCard_onPress(c, id, s)

SpecVerify == Init /\ [][NextVerify]_vars

\* ------------------------------------------------------------- specification: sign-up
\* the sign-up form is shown to a device that holds no session
NextSignUp ==
    \/ \E c \in Users, role \in ManagingRoles :
          authSession = NULL /\ signUp_auth(c, role)
    \/ \E c \in Users : signUp_insert(c)
    \/ tokenRefreshed
    \/ getSession_then
    \/ getSession_catch
    \/ onAuthStateChange
    \/ \E u \in Users : fetchProfile_resolve(u, FALSE)
    \/ IndexScreen_effect

\* every request is answered and every handler that can run does; token
\* refreshes come when the auth client decides
SpecSignUp ==
    /\ Init
    /\ [][NextSignUp]_vars
    /\ WF_vars(\E c \in Users : signUp_insert(c))
    /\ WF_vars(getSession_then)
    /\ WF_vars(onAuthStateChange)
    /\ WF_vars(\E u \in Users : fetchProfile_resolve(u, FALSE))
    /\ WF_vars(IndexScreen_effect)

\* ------------------------------------------------------------- specification: column constraints
TxIds == 1..MaxTxs

\* requests that set one enumerated column of an existing row, to a value of
\* its set or to one outside it
LandStatusPatches(id) ==
    IF id \in DOMAIN land_records
    THEN {[land_records[id] EXCEPT !.ownership_status = s] : s \in {"verified", Invalid}}
    ELSE {LandRow("Plot A", NULL, "pending")}

DocColumnPatches(id) ==
    IF id \in DOMAIN ownership_documents
    THEN {[ownership_documents[id] EXCEPT !.status = s] : s \in {"approved", Invalid}} \cup
         {[ownership_documents[id] EXCEPT !.document_type = t] : t \in {"survey", Invalid}}
    ELSE {DocRow(NULL, "deed", "pending", NULL, NULL)}

TxColumnPatches(id) ==
    IF id \in DOMAIN transactions
    THEN {[transactions[id] EXCEPT !.status = s] : s \in {"completed", Invalid}} \cup
         {[transactions[id] EXCEPT !.transaction_type = t] : t \in {"transfer", Invalid}}
    ELSE {TxRow(NULL, NULL, "sale", "pending")}

NextConstraints ==
    \/ \E c \in Users, role \in {"admin", Invalid} :
          ProfileInsert(c, c, role)
    \/ \E c \in Users, role \in {"landowner", Invalid} :
          ProfileUpdate(c, c, role)
    \/ \E c \in Users, s \in {"pending", Invalid} :
          LandInsert(c, LandRow("Plot A", c, s)) /\ UNCHANGED landownerCreated
    \/ \E c \in Users, id \in LandIds : \E row \in LandStatusPatches(id) :
          LandUpdate(c, id, row)
    \/ \E c \in Users, l \in LandIds, t \in {"deed", Invalid}, s \in {"pending", Invalid} :
          DocInsert(c, DocRow(l, t, s, c, NULL))
    \/ \E c \in Users, id \in DocIds : \E row \in DocColumnPatches(id) :
          DocUpdate(c, id, row)
    \/ \E c \in Users, t \in {"info", Invalid} :
          NotifInsert(c, NotifRow(c, "title", "message", t))
    \/ \E c \in Users, t \in {"sale", Invalid}, s \in {"pending", Invalid} :
          TxInsert(c, TxRow(c, NULL, t, s))
    \/ \E c \in Users, id \in TxIds : \E row \in TxColumnPatches(id) :
          TxUpdate(c, id, row)

SpecConstraints == Init /\ [][NextConstraints]_vars

\* ------------------------------------------------------------- specification: failed requests
NextErrors ==
    \/ \E c \in Users : ProfileInsert(c, c, "landowner")
    \/ \E c \in Users, u \in Users :
          NotifInsert(c, NotifRow(u, "title", "message", "info"))
    \/ \E c \in Users : fetchNotifications(c)
    \/ \E c \in Users, id \in NotifIds : markAsRead(c, id)
    \/ \E c \in Users : markAllAsRead(c)
    \/ \E c \in Users, id \in NotifIds : deleteNotification(c, id)
    \/ \E c \in Users : fetchNotifications_failed(c)
    \/ \E c \in Users, id \in NotifIds : markAsRead_failed(c, id)
    \/ \E c \in Users : markAllAsRead_failed(c)
    \/ \E c \in Users, id \in NotifIds : deleteNotification_failed(c, id)

SpecErrors == Init /\ [][NextErrors]_vars

\* ------------------------------------------------------------- specification: concurrent status updates
NextWrites ==
    \/ \E c \in Users : ProfileInsert(c, c, "admin")
    \/ \E c \in Users : AdminLands_handleAddLand(c, "Plot A")
    \/ \E c \in Users, l \in LandIds :
          DocInsert(c, DocRow(l, "deed", "pending", c, NULL))
    \/ \E c \in Users : fetchDocuments(c)
    \/ \E c \in Users, f \in Filters : fetchDocumentsResolve(c, f)
    \/ \E c \in Users, id \in LandIds, s \in {"verified", "disputed"} :
          handleVerifyLand_send(c, id, s)
    \/ \E c \in Users : handleVerifyLand_arrive(c)
    \/ \E c \in Users, id \in DocIds, action \in {"approved", "rejected"} :
          handleDocumentAction_send(c, id, action)
    \/ \E c \in Users : handleDocumentAction_arrive(c)

SpecWrites == Init /\ [][NextWrites]_vars

\* ------------------------------------------------------------- claims on land records
\* C1: every authenticated identity reads every land record, and a land record
\* is inserted, changed or deleted only by a request whose caller has the
\* profile role admin or is the row's owner_id (the inserted row's for an
\* insert, the stored row's for an update or delete).
C1_LandRecordsPolicy ==
    /\ [] \A c \in Users : SelectLandRecords(c) = DOMAIN land_records
    /\ [][ /\ \A id \in DOMAIN land_records' \ DOMAIN land_records :
                 IsAdmin(response'.caller) \/ land_records'[id].owner_id = response'.caller
           /\ \A id \in DOMAIN land_records :
                 (id \notin DOMAIN land_records' \/ land_records'[id] # land_records[id])
                    => \/ IsAdmin(response'.caller)
                       \/ land_records[id].owner_id = response'.caller
         ]_vars

\* an update by a non-admin owner has been applied
C1_Witness ==
    /\ response.op = "land_records.update"
    /\ response.applied
    /\ ~IsAdmin(response.caller)
    /\ \E id \in DOMAIN land_records :
          /\ land_records[id].owner_id = response.caller
          /\ land_records[id].ownership_status = "disputed"

\* C2: a record inserted by LandownerDashboard.handleAddLand is pending, and a
\* step changes its ownership_status only when the request comes from an
\* identity whose role is admin.
C2_PendingUntilAdmin ==
    [][ /\ \A id \in landownerCreated' \ landownerCreated :
              land_records'[id].ownership_status = "pending"
        /\ \A id \in landownerCreated \cap DOMAIN land_records' :
              land_records'[id].ownership_status # land_records[id].ownership_status
                 => IsAdmin(response'.caller)
      ]_vars

\* ------------------------------------------------------------- claims on documents
\* the owner of the land record a document row references, NULL when none
LandOwnerOf(row) ==
    IF row.land_record_id \in DOMAIN land_records
    THEN land_records[row.land_record_id].owner_id
    ELSE NULL

\* C3 as stated: a document is inserted only by a caller who is its
\* submitted_by and the owner_id of the land record it references; every other
\* insert leaves ownership_documents unchanged.
C3_InsertOnlyByOwner ==
    [][ \A d \in DOMAIN ownership_documents' \ DOMAIN ownership_documents :
            /\ ownership_documents'[d].submitted_by = response'.caller
            /\ LandOwnerOf(ownership_documents'[d]) = response'.caller
      ]_vars

\* C3 as amended: a document is inserted only by a caller whose role is admin,
\* or who is its submitted_by and the owner_id of the land record it references;
\* an insert by anyone else leaves ownership_documents unchanged.
C3_InsertOnlyByOwnerOrAdmin ==
    [][ \A d \in DOMAIN ownership_documents' \ DOMAIN ownership_documents :
            \/ IsAdmin(response'.caller)
            \/ /\ ownership_documents'[d].submitted_by = response'.caller
               /\ LandOwnerOf(ownership_documents'[d]) = response'.caller
      ]_vars

\* a landowner who owns no land record had an insert rejected while another
\* identity's land record exists
C3_Witness ==
    /\ response.op = "ownership_documents.insert"
    /\ ~response.applied
    /\ profiles[response.caller] = "landowner"
    /\ ownership_documents = <<>>
    /\ land_records # <<>>
    /\ \A l \in DOMAIN land_records :
          land_records[l].owner_id \notin {NULL, response.caller}

\* C4: identity c reads a document if and only if c is its submitted_by, c is
\* the owner_id of the land record it references, or c's role is admin.
C4_DocumentReadable ==
    \A c \in Users : \A d \in DOMAIN ownership_documents :
        d \in SelectDocuments(c)
           <=> \/ ownership_documents[d].submitted_by = c
               \/ LandOwnerOf(ownership_documents[d]) = c
               \/ profiles[c] = "admin"

\* a non-admin reads a document it did not submit, as owner of the land, and
\* another identity cannot read it
C4_Witness ==
    \E c \in Users : \E d \in DOMAIN ownership_documents :
        /\ profiles[c] = "landowner"
        /\ ownership_documents[d].submitted_by # c
        /\ LandOwnerOf(ownership_documents[d]) = c
        /\ d \in SelectDocuments(c)
        /\ \E o \in Users : d \notin SelectDocuments(o)

\* C5: the status of a stored document changes only in a step whose request
\* is an update by an identity whose role is admin.
C5_StatusOnlyByAdmin ==
    [][ \A d \in DOMAIN ownership_documents \cap DOMAIN ownership_documents' :
            ownership_documents'[d].status # ownership_documents[d].status
               => /\ response'.op = "ownership_documents.update"
                  /\ IsAdmin(response'.caller)
      ]_vars

\* an update by the non-admin submitter and land owner of every stored
\* document was not applied
C5_Witness ==
    /\ response.op = "ownership_documents.update"
    /\ ~response.applied
    /\ profiles[response.caller] = "landowner"
    /\ ownership_documents # <<>>
    /\ \A d \in DOMAIN ownership_documents :
          /\ ownership_documents[d].submitted_by = response.caller
          /\ LandOwnerOf(ownership_documents[d]) = response.caller

\* ------------------------------------------------------------- claims on profiles
\* C6: every authenticated identity reads every profile row, and a profile row
\* is inserted or changed only by a request whose caller is the row's id.
C6_ProfilesPolicy ==
    /\ [] \A c \in Users : SelectProfiles(c) = {id \in Users : profiles[id] # NoRow}
    /\ [][ \A id \in Users : profiles'[id] # profiles[id] => response'.caller = id ]_vars

\* an identity changed the role of its own row while another identity's row
\* is stored
C6_Witness ==
    /\ response.op = "profiles.update"
    /\ response.applied
    /\ profiles[response.caller] = "admin"
    /\ \E o \in Users : o # response.caller /\ profiles[o] = "public"

\* ------------------------------------------------------------- claims on notifications
\* C7: a read returns to the caller exactly the rows whose user_id is the
\* caller, a stored row changes only in a step whose caller is its user_id,
\* and an insert for any recipient is accepted from any caller.
C7_NotificationsPolicy ==
    /\ [] /\ \A c \in Users :
                SelectNotifications(c) =
                   {n \in DOMAIN notifications : notifications[n].user_id = c}
          /\ \A c \in Users : \A u \in Users :
                profiles[u] # NoRow =>
                   NotifInsertAccepted(c, NotifRow(u, "title", "message", "info"))
    /\ [][ \A n \in DOMAIN notifications :
              notifications'[n] # notifications[n]
                 => notifications[n].user_id = response'.caller
         ]_vars

\* an insert for another recipient was accepted
C7_Witness ==
    /\ response.op = "notifications.insert"
    /\ response.applied
    /\ notifications[nextNotif].user_id # response.caller

\* C10: after markAllAsRead has sent its update for user U without error,
\* every stored notification whose user_id is U is read.
C10_MarkAllReadsAll ==
    (response.op = "markAllAsRead" /\ response.applied)
       => \A n \in DOMAIN notifications :
             notifications[n].user_id = response.caller => notifications[n].read

\* ------------------------------------------------------------- claims on document review
\* C8: every stored document that has been marked approved or rejected has
\* exactly one review notification, and a pending one has none.
C8_OneNotificationPerMarkedDocument ==
    \A d \in DOMAIN ownership_documents :
        reviewNotified[d] = IF ownership_documents[d].status # "pending" THEN 1 ELSE 0

\* C9: when handleDocumentAction marks a stored pending document, the
\* notification it inserts goes to the document's submitted_by, names the
\* document's type and the title of its land record, and has type success for
\* approved and warning for rejected.
C9_ReviewNotificationContent ==
    [][ \A d \in DOMAIN ownership_documents :
            ( /\ response'.op = "handleDocumentAction"
              /\ response'.applied
              /\ ownership_documents[d].status = "pending"
              /\ ownership_documents'[d].status # "pending" )
            => LET doc == ownership_documents[d]
                   n   == notifications'[nextNotif']
               IN  /\ nextNotif' = nextNotif + 1
                   /\ n.user_id = doc.submitted_by
                   /\ n.message[1] = doc.document_type
                   /\ n.message[2] = land_records[doc.land_record_id].title
                   /\ n.type = IF ownership_documents'[d].status = "approved"
                               THEN "success" ELSE "warning"
      ]_vars

\* a survey of Plot B was rejected and its submitter has the warning
C9_Witness ==
    /\ response.op = "handleDocumentAction"
    /\ response.applied
    /\ \E d \in DOMAIN ownership_documents : \E n \in DOMAIN notifications :
          /\ ownership_documents[d].status = "rejected"
          /\ ownership_documents[d].document_type = "survey"
          /\ notifications[n].type = "warning"
          /\ notifications[n].user_id = ownership_documents[d].submitted_by
          /\ notifications[n].message = <<"survey", "Plot B", "rejected">>

\* ------------------------------------------------------------- specification: routing
\* IndexScreen rendered with any loading flag, session, user and profile
InitRouting ==
    /\ profiles = [u \in Users |-> NoRow]
    /\ land_records = <<>>
    /\ nextLand = 0
    /\ landownerCreated = {}
    /\ ownership_documents = <<>>
    /\ nextDoc = 0
    /\ notifications = <<>>
    /\ nextNotif = 0
    /\ response = NoResponse
    /\ documents = [u \in Users |-> <<>>]
    /\ filter = [u \in Users |-> "pending"]
    /\ inflight = [u \in Users |-> {}]
    /\ reviewNotified = [d \in DocIds |-> 0]
    /\ inbox = [u \in Users |-> <<>>]
    /\ authUsers = {}
    /\ authSession = NULL
    /\ session \in {NULL} \cup Users
    /\ user \in {NULL} \cup Users
    /\ profile \in {NoProfile} \cup [id : Users, role : Roles \cup {Invalid}]
    /\ loading \in BOOLEAN
    /\ getSession = "fulfilled"
    /\ events = <<>>
    /\ fetches = [u \in Users |-> 0]
    /\ route = "none"
    /\ fetchResolved = FALSE
    /\ noUserResolved = FALSE
    /\ failure = NoFailure
    /\ transactions = <<>>
    /\ nextTx = 0
    /\ sentUpdate = [u \in Users |-> NoRequest]
    /\ log = <<>>
    /\ pendingProfile = [u \in Users |-> NoRow]
    /\ lands = [u \in Users |-> <<>>]

NextRouting == IndexScreen_effect

SpecRouting == InitRouting /\ [][NextRouting]_vars

\* ------------------------------------------------------------- specification: navigation
\* the provider has come to rest in some state, with the app at the index
\* screen or at /auth
InitNavigation ==
    /\ profiles = [u \in Users |-> NoRow]
    /\ land_records = <<>>
    /\ nextLand = 0
    /\ landownerCreated = {}
    /\ ownership_documents = <<>>
    /\ nextDoc = 0
    /\ notifications = <<>>
    /\ nextNotif = 0
    /\ response = NoResponse
    /\ documents = [u \in Users |-> <<>>]
    /\ filter = [u \in Users |-> "pending"]
    /\ inflight = [u \in Users |-> {}]
    /\ reviewNotified = [d \in DocIds |-> 0]
    /\ inbox = [u \in Users |-> <<>>]
    /\ authUsers = {}
    /\ authSession = NULL
    /\ session \in {NULL} \cup Users
    /\ user = session
    /\ profile \in {NoProfile} \cup [id : Users, role : Roles \cup {Invalid}]
    /\ loading \in BOOLEAN
    /\ getSession = "fulfilled"
    /\ events = <<>>
    /\ fetches = [u \in Users |-> 0]
    /\ route \in {"none", "/auth"}
    /\ fetchResolved = FALSE
    /\ noUserResolved = FALSE
    /\ failure = NoFailure
    /\ transactions = <<>>
    /\ nextTx = 0
    /\ sentUpdate = [u \in Users |-> NoRequest]
    /\ log = <<>>
    /\ pendingProfile = [u \in Users |-> NoRow]
    /\ lands = [u \in Users |-> <<>>]

\* IndexScreen's effect runs while the index screen is the one mounted
NextNavigation ==
    \/ route \in {"none", "/"} /\ IndexScreen_effect
    \/ AuthScreen_effect

SpecNavigation ==
    /\ InitNavigation
    /\ [][NextNavigation]_vars
    /\ WF_vars(route \in {"none", "/"} /\ IndexScreen_effect)
    /\ WF_vars(AuthScreen_effect)

\* ------------------------------------------------------------- claims on the session lifecycle
\* C11 as stated: loading is true in every state in which no profile fetch has
\* resolved since the provider mounted, and IndexScreen redirects only while
\* loading is false.
C11_LoadingUntilFirstFetch ==
    /\ [](~fetchResolved => loading)
    /\ [][(route' # route /\ route' \in Routes) => ~loading]_vars

\* C11 as amended: loading is true in every state in which neither a profile
\* fetch has resolved nor the session check or a session-change event has
\* resolved without a user, and IndexScreen redirects only while loading is
\* false.
C11_LoadingUntilSettled ==
    /\ [](~(fetchResolved \/ noUserResolved) => loading)
    /\ [][(route' # route /\ route' \in Routes) => ~loading]_vars

\* the first profile fetch has resolved, nothing else ended loading, and the
\* screen has routed an admin
C11_Witness ==
    /\ fetchResolved
    /\ ~noUserResolved
    /\ ~loading
    /\ route = "/(admin)"

\* C12: IndexScreen redirects only when loading is false, and then to /auth
\* when session or profile is null, to /(admin), /(landowner) or /(public) for
\* the role admin, landowner or public, and to /auth for any other role,
\* whatever the user in the context is.
C12_RoutingTarget ==
    [][ route' # route =>
          /\ ~loading
          /\ route' = IF session = NULL \/ profile = NoProfile THEN "/auth"
                      ELSE IF profile.role = "admin" THEN "/(admin)"
                      ELSE IF profile.role = "landowner" THEN "/(landowner)"
                      ELSE IF profile.role = "public" THEN "/(public)"
                      ELSE "/auth"
      ]_vars

\* a signed-in identity whose profile has an unrecognized role was sent to /auth
C12_Witness ==
    /\ ~loading
    /\ session # NULL
    /\ profile # NoProfile
    /\ profile.role = Invalid
    /\ route = "/auth"

\* C13: every state is one of the lifecycle states, so that session, user and
\* profile are all null whenever session is null, and the state moves forward
\* along unauthenticated, authenticating / authenticated-no-profile,
\* authenticated-with-profile, or back to unauthenticated.
AuthRank ==
    IF session = NULL THEN 0
    ELSE IF profile = NoProfile THEN 1
    ELSE 2

C13_AuthLifecycle ==
    /\ [](session = NULL => (user = NULL /\ profile = NoProfile))
    /\ [][AuthRank' >= AuthRank \/ AuthRank' = 0]_vars

\* C14: a session-change event delivered to the listener, and a session check
\* that finds a persisted session, issue a profile fetch keyed by the new
\* session's user and set loading; an event without a user clears the profile,
\* ends loading and issues no fetch.
C14_SessionChangeFetches ==
    [][ /\ (events # <<>> /\ events' = Tail(events)
               /\ getSession' = getSession)
           => IF Head(events) # NULL
              THEN /\ session' = Head(events)
                   /\ loading'
                   /\ fetches' = [fetches EXCEPT ![Head(events)] = @ + 1]
              ELSE /\ session' = NULL
                   /\ profile' = NoProfile
                   /\ ~loading'
                   /\ fetches' = fetches
        /\ (getSession = "pending" /\ getSession' = "fulfilled" /\ authSession # NULL)
           => /\ session' = authSession
              /\ loading'
              /\ fetches' = [fetches EXCEPT ![authSession] = @ + 1]
      ]_vars

\* the listener has taken a sign-in of another identity while the profile of
\* the previous one is held: the fetch for the new one is in flight
C14_Witness ==
    /\ session # NULL
    /\ profile # NoProfile
    /\ profile.id # session
    /\ loading
    /\ fetches[session] = 1
    /\ \A u \in Users : u # session => fetches[u] = 0

\* C15: an identity exists in the auth service if and only if a profile row
\* with its id exists.
C15_OneProfilePerIdentity ==
    \A id \in Users : id \in authUsers <=> profiles[id] # NoRow

\* ------------------------------------------------------------- claims on stored values
\* C16: the land_record_id of every stored document is the id of a stored
\* land record.
C16_DocumentReferencesLand ==
    \A d \in DOMAIN ownership_documents :
        ownership_documents[d].land_record_id \in DOMAIN land_records

\* C17: every stored profile role, land ownership_status, document status and
\* document_type, transaction status and transaction_type, and notification
\* type lies in its enumerated set, and no caller has an insert or update
\* carrying a value outside the set accepted.
C17_EnumeratedColumns ==
    /\ \A u \in Users : profiles[u] \in Roles \cup {NoRow}
    /\ \A l \in DOMAIN land_records :
          land_records[l].ownership_status \in OwnershipStatuses
    /\ \A d \in DOMAIN ownership_documents :
          /\ ownership_documents[d].status \in DocumentStatuses
          /\ ownership_documents[d].document_type \in DocumentTypes
    /\ \A t \in DOMAIN transactions :
          /\ transactions[t].status \in TransactionStatuses
          /\ transactions[t].transaction_type \in TransactionTypes
    /\ \A n \in DOMAIN notifications : notifications[n].type \in NotificationTypes
    /\ \A c \in Users :
          /\ ~LandInsertAccepted(c, LandRow("Plot A", c, Invalid))
          /\ \A l \in LandIds :
                /\ ~DocInsertAccepted(c, DocRow(l, Invalid, "pending", c, NULL))
                /\ ~DocInsertAccepted(c, DocRow(l, "deed", Invalid, c, NULL))
          /\ \A d \in DOMAIN ownership_documents :
                /\ ~DocUpdateApplied(c, d, [ownership_documents[d] EXCEPT !.status = Invalid])
                /\ ~DocUpdateApplied(c, d, [ownership_documents[d] EXCEPT !.document_type = Invalid])
          /\ ~NotifInsertAccepted(c, NotifRow(c, "title", "message", Invalid))
          /\ ~TxInsertAccepted(c, TxRow(c, NULL, Invalid, "pending"))
          /\ ~TxInsertAccepted(c, TxRow(c, NULL, "sale", Invalid))
          /\ \A t \in DOMAIN transactions :
                /\ ~TxUpdateApplied(c, t, [transactions[t] EXCEPT !.status = Invalid])
                /\ ~TxUpdateApplied(c, t, [transactions[t] EXCEPT !.transaction_type = Invalid])

\* every table holds a row, and the last request, an update of the
\* transaction by an admin, was rejected
C17_Witness ==
    /\ response.op = "transactions.update"
    /\ ~response.applied
    /\ IsAdmin(response.caller)
    /\ transactions # <<>>
    /\ land_records # <<>>
    /\ ownership_documents # <<>>
    /\ notifications # <<>>

\* ------------------------------------------------------------- claims on the screens
\* C18: every request of a screen that fails is sent once and raises exactly
\* one alert.
C18_OneAlertPerFailure ==
    failure.op # "none" => (failure.requests = 1 /\ failure.alerts = 1)

\* C19: whenever an admin's request changes the ownership_status of a land
\* record that has an owner, the same step creates a notification for that owner.
C19_StatusChangeNotifiesOwner ==
    [][\A id \in DOMAIN land_records :
          (/\ id \in DOMAIN land_records'
           /\ land_records'[id].ownership_status # land_records[id].ownership_status
           /\ land_records[id].owner_id # NULL
           /\ IsAdmin(response'.caller))
          => /\ nextNotif' = nextNotif + 1
             /\ notifications'[nextNotif'].user_id = land_records[id].owner_id]_vars

\* C20: whenever a status update of an admin screen arrives, whatever other
\* update of the same row is in flight or has arrived since the screen read
\* the row, it is applied without an error and the stored row carries its status.
C20_LastWriteWins ==
    [][\A c \in Users :
          (sentUpdate[c] # NoRequest /\ sentUpdate'[c] = NoRequest)
          => /\ response'.caller = c
             /\ response'.applied
             /\ log'[Len(log')].applied
             /\ IF sentUpdate[c].table = "land_records"
                THEN land_records'[sentUpdate[c].id].ownership_status = sentUpdate[c].status
                ELSE /\ ownership_documents'[sentUpdate[c].id].status = sentUpdate[c].status
                     /\ ownership_documents'[sentUpdate[c].id].reviewed_by = c]_vars

\* two admins sent different statuses for the same land record while the
\* other's update was in flight; both were applied and the row has the second
C20_Witness ==
    /\ Len(log) = 2
    /\ log[1].caller # log[2].caller
    /\ log[1].table = "land_records" /\ log[2].table = "land_records"
    /\ log[1].id = log[2].id
    /\ log[1].status # log[2].status
    /\ log[1].overlapped
    /\ log[1].applied /\ log[2].applied
    /\ land_records[log[2].id].ownership_status = log[2].status

\* ------------------------------------------------------------- claims on fetches in flight
\* C21: no fetch of AdminDocumentsScreen is cancelled: every answer that
\* arrives replaces the list with the rows of the filter it was asked for,
\* current or not, so the list can end up showing another filter's rows.
C21_AnswersAlwaysReplaceList ==
    [][\A c \in Users, f \in Filters :
          (f \in inflight[c] /\ f \notin inflight'[c])
          => documents'[c] = DocumentsQuery(c, f)]_vars

\* all fetches of an admin have resolved, the filter is 'pending', and the
\* list shows a document as the store has it, decided
C21_Witness ==
    \E c \in Users :
        /\ inflight[c] = {}
        /\ filter[c] = "pending"
        /\ \E d \in DOMAIN documents[c] :
              /\ documents[c][d].status # "pending"
              /\ d \in DOMAIN ownership_documents
              /\ ownership_documents[d].status = documents[c][d].status

\* ------------------------------------------------------------- claims on privileges
\* the land records of other owners (or of none) that caller c's UPDATE and
\* DELETE reach
ForeignLandsReached(c) ==
    {id \in DOMAIN land_records :
        land_records[id].owner_id # c /\ LandReached(c, id)}

\* C22: an identity that is not an admin gains, by its own insert or update
\* of its profile row, no reach over a land record it does not own.
C22_NoSelfEscalation ==
    [][\A c \in Users :
          (/\ profiles[c] # "admin"
           /\ response'.caller = c
           /\ response'.op \in {"profiles.insert", "profiles.update"})
          => ForeignLandsReached(c)' \subseteq ForeignLandsReached(c)]_vars

\* ------------------------------------------------------------- claims on the provider's state
\* C23: a profile held by AuthProvider is the profile of the current session's user.
C23_ProfileBelongsToSession ==
    profile # NoProfile => (session # NULL /\ profile.id = session)

\* C24: while loading is false no profile fetch is in flight.
C24_NoFetchWhileNotLoading ==
    ~loading => \A u \in Users : fetches[u] = 0

\* ------------------------------------------------------------- claims on sign-up
\* C25: once signUp has succeeded for an identity (identity, session and
\* profile row exist), AuthProvider eventually holds that identity's profile.
C25_SignUpLoadsProfile ==
    \A c \in Users :
        (c \in authUsers /\ authSession = c /\ profiles[c] # NoRow)
        ~> (profile # NoProfile /\ profile.id = c)

\* ------------------------------------------------------------- claims on navigation
\* C26: with the provider's state at rest, the redirects of IndexScreen and
\* AuthScreen come to an end.
C26_NavigationSettles ==
    <>[][route' = route]_vars

\* ------------------------------------------------------------- claims on start-up
\* C27: if from some point on no session-change event is emitted, loading
\* eventually is false and stays false.
C27_LoadingSettles ==
    <>[][Len(events') <= Len(events)]_vars => <>[]~loading

\* the session's profile fetch has failed, nothing is pending and loading is false
C27_Witness ==
    /\ getSession = "fulfilled"
    /\ events = <<>>
    /\ \A u \in Users : fetches[u] = 0
    /\ session # NULL
    /\ fetchResolved
    /\ profile = NoProfile
    /\ profiles[session] # NoRow
    /\ ~loading

\* ------------------------------------------------------------- claims on the notifications list
\* C28: after deleteNotification has taken a row off the list, having seen no
\* error, the notifications table has no row with that id; after markAsRead
\* has shown a row as read, the stored row is read.
C28_ListAgreesWithStore ==
    [][\A c \in Users, id \in NotifIds :
          /\ (/\ response'.op = "deleteNotification"
              /\ id \in DOMAIN inbox[c]
              /\ id \notin DOMAIN inbox'[c])
             => id \notin DOMAIN notifications'
          /\ (/\ response'.op = "markAsRead"
              /\ response'.caller = c
              /\ id \in DOMAIN inbox[c]
              /\ ~inbox[c][id].read
              /\ inbox'[c][id].read)
             => (id \in DOMAIN notifications' /\ notifications'[id].read)]_vars

\* ------------------------------------------------------------- claims on decisions
\* C29: a land record whose stored ownership_status is verified or disputed
\* keeps it under every handleVerifyLand issued from a card of AdminLandsScreen.
C29_LandDecidedOnce ==
    [][\A id \in DOMAIN land_records :
          (/\ land_records[id].ownership_status \in {"verified", "disputed"}
           /\ response'.op = "land_records.update")
          => land_records'[id].ownership_status = land_records[id].ownership_status]_vars

\* C30: a document whose stored status is approved or rejected keeps its
\* status and its reviewed_by under every handleDocumentAction.
C30_DocumentDecidedOnce ==
    [][\A d \in DOMAIN ownership_documents :
          (/\ ownership_documents[d].status \in {"approved", "rejected"}
           /\ response'.op = "handleDocumentAction"
           /\ d \in DOMAIN ownership_documents')
          => /\ ownership_documents'[d].status = ownership_documents[d].status
             /\ ownership_documents'[d].reviewed_by = ownership_documents[d].reviewed_by]_vars

=============================================================================
